---- MODULE Spec2Model ----
(***************************************************************************)
(* Model of backup_func.py: the AMI backup Lambda.                         *)
(*                                                                         *)
(* BackupSet.remove_old_backups (the retention engine) is modelled one     *)
(* loop iteration per action; lambda_handler drives it for every listed    *)
(* instance.  Dates are day numbers, so (a - b).days is a - b.             *)
(***************************************************************************)
EXTENDS Integers, Sequences, FiniteSets, TLC

\* ---------------------------------------------------------------- constants
MAX_ORDER == 6

DAYS_TO_KEEP_BACKUPS == 365

\* ------------------------------------------------------------------- bounds
\* longest history drawn for one engine run
MaxLen == 7

\* ages (days before today; negative = dated after today) histories are drawn
\* from: both sides of every bound the engine compares against
AgeValues == {-1, 0, 2, 3, 4, 5, 33, 64, 65, 365, 366}

\* longest history of one name in the store when the first invocation starts
MaxHist == 6

\* invocations of lambda_handler in one behaviour
MaxRuns == 2

\* days of daily invocations
MaxDays == 400

\* ages the stored histories are drawn from
HandlerAges == {0, 3, 33, 366}

\* the literal test vector of the specification, oldest first
ScenarioAges == <<400, 200, 80, 40, 20, 10, 5, 4, 3, 2, 1, 0>>

VARIABLES
    today,            \* datetime.date.today(), a day number
    images,           \* BackupSet.images: sequence of [id, created_at]
    backup_num,       \* BackupSet.backup_num: the cursor, 0-based
    backup_days_ago,  \* BackupSet.backup_days_ago, "unset" before the first update
    pc,               \* position inside remove_old_backups
    n,                \* the for-loop variable of remove_old_backups
    removed,          \* calls of aws_remove_func, in order
    kept,             \* "Keeping AMI" decisions, in order
    run,              \* 1: first run on a drawn history, 2: run on its survivors
    store,            \* the provider's images, in the order describe_images lists them
    snapstore,        \* the provider's snapshots, in the order describe_snapshots lists them
    calls,            \* calls made on the ec2 client, in order
    instances,        \* what describe_instances lists
    all_images,       \* lambda_handler's all_images: name -> list of [id, created_at]
    all_snapshots,    \* lambda_handler's all_snapshots: ImageId -> list of SnapshotId
    inst,             \* 1-based position of the for loop of lambda_handler
    hpc,              \* position inside lambda_handler ("none": engine run alone)
    runs              \* invocations of lambda_handler so far

\* what the engine alone never touches
envVars == <<instances, all_images, all_snapshots, inst, hpc, runs>>

vars == <<today, images, backup_num, backup_days_ago, pc, n, removed, kept, run,
          store, snapstore, calls, instances, all_images, all_snapshots, inst, hpc,
          runs>>

\* ------------------------------------------------------------ pure helpers
\* non-increasing age sequences of length k with first age <= top
RECURSIVE NonIncreasing(_, _)
NonIncreasing(k, top) ==
    IF k = 0 THEN {<<>>}
    ELSE UNION { { <<a>> \o s : s \in NonIncreasing(k - 1, a) } :
                 a \in {x \in AgeValues : x <= top} }

MaxAge == CHOOSE a \in AgeValues : \A b \in AgeValues : b <= a

SortedAgeSeqs == UNION { NonIncreasing(k, MaxAge) : k \in 0..MaxLen }

\* a listing whose i-th image was created ages[i] days before day t
MkImages(t, ages) ==
    [i \in 1..Len(ages) |-> [id |-> i, created_at |-> t - ages[i]]]

Reverse(s) == [i \in 1..Len(s) |-> s[Len(s) + 1 - i]]

\* the orders in which the provider may list a history: oldest or newest first
Listings(t, ages) == {MkImages(t, ages), MkImages(t, Reverse(ages))}

\* the place a stable sort by created_at gives the i-th element of s
StableRank(s, i) ==
    Cardinality({j \in 1..Len(s) :
                    \/ s[j].created_at < s[i].created_at
                    \/ s[j].created_at = s[i].created_at /\ j < i}) + 1

\* faulty variant: the listing is used as returned, never sorted
SortByCreated_Unsorted(s) == s

\* line 260: images.sort(key=lambda r: r['created_at']), a stable sort
SortByCreated(s) ==
    [r \in 1..Len(s) |-> s[CHOOSE i \in 1..Len(s) : StableRank(s, i) = r]]

\* faulty variant: the operands of the date difference swapped
DaysAgo_Swapped(t, imgs, num) == imgs[num + 1].created_at - t

\* _update_days_ago: (today - images[backup_num]['created_at']).days
DaysAgo(t, imgs, num) == t - imgs[num + 1].created_at

\* faulty variant: the early exit taken one backup too early
TooFew_OffByOne(imgs) == Len(imgs) < MAX_ORDER - 1

\* line 151: len(self.images) < BackupSet.MAX_ORDER
TooFew(imgs) == Len(imgs) < MAX_ORDER

\* faulty variant: the floor of MAX_ORDER remaining backups left out
CeilingCond_NoFloor(age, len, num) == age > DAYS_TO_KEEP_BACKUPS

\* lines 156-157: the condition of the "really old" loop
CeilingCond(age, len, num) ==
    age > DAYS_TO_KEEP_BACKUPS /\ len - num >= MAX_ORDER

\* faulty variant: the top bucket one order too high
upper_bound_Double == 2 ^ (MAX_ORDER + 1)

\* line 161: pow(2, MAX_ORDER), inclusive
upper_bound == 2 ^ MAX_ORDER

\* faulty variant: the bound of the bucket one day too high
lower_bound_High(k) == 2 ^ (k - 1) + 1

\* faulty variant: the bound of the bucket one day too low
lower_bound_Low(k) == 2 ^ (k - 1) - 1

\* line 168: pow(2, n - 1), non-inclusive
lower_bound(k) == 2 ^ (k - 1)

\* faulty variant: the cursor advanced by two
NextNum_Two(num) == num + 2

\* line 125: self.backup_num += 1
NextNum(num) == num + 1

\* line 126: the test of _inc_backup_num after the increment
InRange(num, imgs) == num < Len(imgs)

\* ----------------------------------------------------- BackupSet methods
\* _inc_backup_num: advance; refresh backup_days_ago unless exhausted
\* (the stale value stays when the cursor runs off the end)
IncBackupNum ==
    /\ backup_num' = NextNum(backup_num)
    /\ backup_days_ago' =
          IF InRange(NextNum(backup_num), images)
          THEN DaysAgo(today, images, NextNum(backup_num))
          ELSE backup_days_ago

\* the value _inc_backup_num returns (True = no backups remain)
Exhausted == ~InRange(NextNum(backup_num), images)

\* _keep_and_inc
KeepAndInc ==
    /\ kept' = Append(kept, [id |-> images[backup_num + 1].id, num |-> backup_num])
    /\ removed' = removed
    /\ UNCHANGED <<store, snapstore, calls>>
    /\ IncBackupNum

\* ec.deregister_image(ImageId=image_id): the image leaves the store
Deregister(st, id) == SelectSeq(st, LAMBDA a : a.ImageId # id)

\* ec.delete_snapshot(SnapshotId=s): the snapshot leaves the store
DeleteSnapshot(ss, sid) == SelectSeq(ss, LAMBDA x : x.SnapshotId # sid)

\* the requests remove_backup makes, in order: line 85, then lines 86-88
RemoveRequests(id, snaps) ==
    <<[op |-> "deregister_image", ImageId |-> id]>> \o
    [k \in 1..Len(snaps) |-> [op |-> "delete_snapshot", SnapshotId |-> snaps[k]]]

\* a request as the record of calls keeps it: by which instance of which
\* invocation it was made, and whether it returned or raised
Logged(req, ok) ==
    IF req.op = "deregister_image"
    THEN [op |-> req.op, ImageId |-> req.ImageId, inst |-> inst, run |-> runs, ok |-> ok]
    ELSE [op |-> req.op, SnapshotId |-> req.SnapshotId, inst |-> inst, run |-> runs,
          ok |-> ok]

\* the images left once the first k requests of reqs are served
RECURSIVE ImagesAfter(_, _, _)
ImagesAfter(st, reqs, k) ==
    IF k = 0 THEN st
    ELSE LET before == ImagesAfter(st, reqs, k - 1)
         IN  IF reqs[k].op = "deregister_image"
             THEN Deregister(before, reqs[k].ImageId)
             ELSE before

\* the snapshots left once the first k requests of reqs are served
RECURSIVE SnapshotsAfter(_, _, _)
SnapshotsAfter(ss, reqs, k) ==
    IF k = 0 THEN ss
    ELSE LET before == SnapshotsAfter(ss, reqs, k - 1)
         IN  IF reqs[k].op = "delete_snapshot"
             THEN DeleteSnapshot(before, reqs[k].SnapshotId)
             ELSE before

\* remove_backup(image_id, snapshots), lines 83-88
remove_backup(id, snaps) ==
    LET reqs == RemoveRequests(id, snaps)
    IN  /\ calls' = calls \o [k \in 1..Len(reqs) |-> Logged(reqs[k], TRUE)]
        /\ store' = ImagesAfter(store, reqs, Len(reqs))
        /\ snapstore' = SnapshotsAfter(snapstore, reqs, Len(reqs))

\* aws_remove_func: remove_backup under lambda_handler (line 272); a callback
\* that only records the call when the engine runs alone
aws_remove_func(id, snaps) ==
    IF hpc = "none" THEN UNCHANGED <<store, snapstore, calls>> ELSE remove_backup(id, snaps)

\* faulty variant: the snapshots of the image are never looked up
SnapshotsOf_Empty(id, all) == <<>>

\* lines 144-146: the snapshots all_snapshots holds for the image, else []
SnapshotsOf(id, all) == IF id \in DOMAIN all THEN all[id] ELSE <<>>

\* what _remove_and_inc passes to aws_remove_func; rule records which loop
\* made the call
RemoveRecord(rule) ==
    [id |-> images[backup_num + 1].id, num |-> backup_num, rule |-> rule,
     snapshots |-> SnapshotsOf(images[backup_num + 1].id, all_snapshots)]

\* _remove_and_inc: aws_remove_func(image['id'], snapshots), then advance
RemoveAndInc(rule) ==
    /\ removed' = Append(removed, RemoveRecord(rule))
    /\ aws_remove_func(RemoveRecord(rule).id, RemoveRecord(rule).snapshots)
    /\ kept' = kept
    /\ IncBackupNum

\* ------------------------------------------------- remove_old_backups
\* lines 151-153: early exit, or the first _update_days_ago
Start ==
    /\ pc = "start"
    /\ IF TooFew(images)
       THEN /\ pc' = "done"
            /\ UNCHANGED backup_days_ago
       ELSE /\ pc' = "ceiling"
            /\ backup_days_ago' = DaysAgo(today, images, backup_num)
    /\ UNCHANGED <<today, images, backup_num, n, removed, kept, run, store, snapstore,
                   calls>>
    /\ UNCHANGED envVars

\* lines 156-158: one iteration of the "really old" loop (result ignored)
CeilingRemove ==
    /\ pc = "ceiling"
    /\ CeilingCond(backup_days_ago, Len(images), backup_num)
    /\ RemoveAndInc("ceiling")
    /\ UNCHANGED <<today, images, pc, n, run>>
    /\ UNCHANGED envVars

CeilingExit ==
    /\ pc = "ceiling"
    /\ ~CeilingCond(backup_days_ago, Len(images), backup_num)
    /\ pc' = "skip"
    /\ UNCHANGED <<today, images, backup_num, backup_days_ago, n, removed, kept, run,
                   store, snapstore, calls>>
    /\ UNCHANGED envVars

\* lines 162-164: keep what is older than 2^MAX_ORDER
SkipKeep ==
    /\ pc = "skip"
    /\ backup_days_ago > upper_bound
    /\ pc' = IF Exhausted THEN "done" ELSE "skip"
    /\ KeepAndInc
    /\ UNCHANGED <<today, images, n, run>>
    /\ UNCHANGED envVars

\* line 167: enter the for loop, n = MAX_ORDER
SkipExit ==
    /\ pc = "skip"
    /\ ~(backup_days_ago > upper_bound)
    /\ IF MAX_ORDER > 1
       THEN pc' = "bucket" /\ n' = MAX_ORDER
       ELSE pc' = "done" /\ n' = n
    /\ UNCHANGED <<today, images, backup_num, backup_days_ago, removed, kept, run,
                   store, snapstore, calls>>
    /\ UNCHANGED envVars

\* range(MAX_ORDER, 1, -1): the step to the next n, or the end of the loop
NextN(k) == k - 1

LoopPc(k) == IF NextN(k) > 1 THEN "bucket" ELSE "done"

\* lines 170-172: the oldest backup of the bucket is kept
BucketKeep ==
    /\ pc = "bucket"
    /\ backup_days_ago > lower_bound(n)
    /\ pc' = IF Exhausted THEN "done" ELSE "thin"
    /\ KeepAndInc
    /\ UNCHANGED <<today, images, n, run>>
    /\ UNCHANGED envVars

\* line 170 false: nothing in this bucket
BucketEmpty ==
    /\ pc = "bucket"
    /\ ~(backup_days_ago > lower_bound(n))
    /\ pc' = LoopPc(n)
    /\ n' = NextN(n)
    /\ UNCHANGED <<today, images, backup_num, backup_days_ago, removed, kept, run,
                   store, snapstore, calls>>
    /\ UNCHANGED envVars

\* faulty variant: one removal only, then back to the keep of line 170
AfterRemove_Once(exhausted) == IF exhausted THEN "done" ELSE "bucket"

\* lines 173-175: return when exhausted, else test the while condition again
AfterRemove(exhausted) == IF exhausted THEN "done" ELSE "thin"

\* lines 173-175: the others of the bucket are removed
ThinRemove ==
    /\ pc = "thin"
    /\ backup_days_ago > lower_bound(n)
    /\ pc' = AfterRemove(Exhausted)
    /\ RemoveAndInc("thin")
    /\ UNCHANGED <<today, images, n, run>>
    /\ UNCHANGED envVars

ThinExit ==
    /\ pc = "thin"
    /\ ~(backup_days_ago > lower_bound(n))
    /\ pc' = LoopPc(n)
    /\ n' = NextN(n)
    /\ UNCHANGED <<today, images, backup_num, backup_days_ago, removed, kept, run,
                   store, snapstore, calls>>
    /\ UNCHANGED envVars

Engine ==
    \/ Start
    \/ CeilingRemove
    \/ CeilingExit
    \/ SkipKeep
    \/ SkipExit
    \/ BucketKeep
    \/ BucketEmpty
    \/ ThinRemove
    \/ ThinExit

\* ------------------------------------------ the engine on drawn histories
RemovedIds == {removed[i].id : i \in 1..Len(removed)}

\* what is left of the history once the recorded removals are carried out
Survivors(imgs, ids) == SelectSeq(imgs, LAMBDA im : im.id \notin ids)

\* BackupSet.__init__ on a listing
NewBackupSet(imgs) ==
    /\ images' = imgs
    /\ backup_num' = 0
    /\ backup_days_ago' = "unset"
    /\ pc' = "start"
    /\ n' = 0
    /\ removed' = <<>>
    /\ kept' = <<>>

\* a second BackupSet over the survivors of the first run, same today
Rerun ==
    /\ pc = "done"
    /\ run = 1
    /\ run' = 2
    /\ NewBackupSet(Survivors(images, RemovedIds))
    /\ UNCHANGED <<today, store, snapstore, calls>>
    /\ UNCHANGED envVars

Init ==
    /\ today = 0
    /\ \E s \in SortedAgeSeqs \cup {ScenarioAges} : \E l \in Listings(0, s) :
          images = SortByCreated(l)
    /\ backup_num = 0
    /\ backup_days_ago = "unset"
    /\ pc = "start"
    /\ n = 0
    /\ removed = <<>>
    /\ kept = <<>>
    /\ run = 1
    /\ store = <<>>
    /\ snapstore = <<>>
    /\ calls = <<>>
    /\ instances = <<>>
    /\ all_images = <<>>
    /\ all_snapshots = <<>>
    /\ inst = 0
    /\ hpc = "none"
    /\ runs = 0

Next ==
    \/ Engine
    \/ Rerun

Spec == Init /\ [][Next]_vars

\* ============================================================ lambda_handler
\* A tag value, or Python's None
Some(v) == [some |-> TRUE, v |-> v]

None == [some |-> FALSE, v |-> ""]

\* "%s" % x
Str(x) == IF x.some THEN x.v ELSE "None"

\* get_tag: the value of the first tag with that key, else None
get_tag(instance, tag_name) ==
    LET hits == {k \in 1..Len(instance.Tags) : instance.Tags[k].Key = tag_name}
    IN  IF hits = {} THEN None
        ELSE Some(instance.Tags[CHOOSE k \in hits : \A j \in hits : k <= j].Value)

\* the day the first invocation runs: every stored date is a day >= 0
FirstDay == CHOOSE a \in HandlerAges : \A b \in HandlerAges : b <= a

\* strftime('%m%d%y'): a string of digits
Stamp(day) == ToString(day)

\* the strings of digits a date stamp can be
DigitStrings == {Stamp(d) : d \in 0..(FirstDay + MaxRuns + MaxDays)}

\* str.isdigit() on what follows the last '-'
IsDigit(tail) == tail \in DigitStrings

\* line 59: "%s-%s" % (name, today.strftime('%m%d%y')); the AMI name is kept
\* as what precedes its last '-' and what follows it
AmiName(name, day) == [base |-> Str(name), tail |-> Stamp(day)]

\* lines 192-194: pos > 0 and name[pos + 1:].isdigit()
\* (base = "": no '-' in the name, or nothing before it)
Conforms(ami) == ami.Name.base # "" /\ IsDigit(ami.Name.tail)

\* get_images, lines 179-207: private images grouped by name, in listing order
get_images(st) ==
    LET ok(a) == ~a.Public /\ Conforms(a)
        names == {st[k].Name.base : k \in {j \in 1..Len(st) : ok(st[j])}}
        entry(a) == [id |-> a.ImageId, created_at |-> a.CreationDate]
        group(nm) == SelectSeq(st, LAMBDA a : ok(a) /\ a.Name.base = nm)
    IN  [nm \in names |-> [k \in 1..Len(group(nm)) |-> entry(group(nm)[k])]]

\* the Description EC2 gives the snapshot create_image makes of a volume of
\* instance iid for the image ami: literal text around the three ids
CreateImageDesc(iid, ami, vol) ==
    <<"Created by CreateImage(", iid, ") for ", ami, " from ", vol>>

\* line 40, line 222: SNAPSHOT_DESC_PATTERN.match(snapshot_desc) is not None;
\* match anchors at the start only
DescMatches(desc) ==
    /\ Len(desc) >= 6
    /\ desc[1] = "Created by CreateImage("
    /\ desc[3] = ") for "
    /\ desc[5] = " from "

\* line 226: m.group(1)
DescAmi(desc) == desc[4]

\* get_snapshots, lines 210-229: the completed snapshots whose description
\* matches, grouped by the image id it names, in listing order
get_snapshots(ss) ==
    LET ok(x) == x.State = "completed" /\ DescMatches(x.Description)
        amis == {DescAmi(ss[k].Description) : k \in {j \in 1..Len(ss) : ok(ss[j])}}
        group(a) == SelectSeq(ss, LAMBDA x : ok(x) /\ DescAmi(x.Description) = a)
    IN  [a \in amis |-> [k \in 1..Len(group(a)) |-> group(a)[k].SnapshotId]]

\* line 258: name in all_images
Listed(name, all) == name.some /\ name.v \in DOMAIN all

\* lines 258-265: the sorted list of the name, or []
ImagesOf(name, all) == IF Listed(name, all) THEN SortByCreated(all[name.v]) ELSE <<>>

\* line 260 sorts the list held by all_images in place
SortedInPlace(name, all) ==
    IF Listed(name, all)
    THEN [all EXCEPT ![name.v] = SortByCreated(all[name.v])]
    ELSE all

\* line 267: a fresh backup already exists
FreshExists(imgs, day) == Len(imgs) > 0 /\ imgs[Len(imgs)].created_at = day

\* faulty variant: the image just created is added to the list before pruning
HandedToEngine_WithNew(imgs, new) == imgs \o new

\* line 272: the list handed to BackupSet
HandedToEngine(imgs, new) == imgs

\* line 41
PREFIX_NAMES == [ec2 |-> "EC2", vpc |-> "VPC"]

\* lines 26-30
DESC_NAMES ==
    [infosrv |-> "Informational Server", exchange |-> "MS Exchange Server",
     openvpn |-> "OpenVPC Gateway"]

\* str.startswith
startswith(str, p) == Len(str) >= Len(p) /\ SubSeq(str, 1, Len(p)) = p

\* lines 50-54
format_desc_name(prefix, name) == IF Len(prefix) = 0 THEN name ELSE prefix \o " " \o name

\* lines 60-74 of backup_instance, for a name that is a string
desc_name(instance, name) ==
    LET pre == startswith(name, "ec2-") \/ startswith(name, "vpc-")
        prefix == IF pre THEN PREFIX_NAMES[SubSeq(name, 1, 3)] ELSE ""
        sname == IF pre THEN SubSeq(name, 5, Len(name)) ELSE name
        cf_stack_name == get_tag(instance, "aws:cloudformation:stack-name")
    IN  IF sname \in DOMAIN DESC_NAMES
        THEN format_desc_name(prefix, DESC_NAMES[sname])
        ELSE IF ~cf_stack_name.some
             THEN format_desc_name(prefix, "Unknown")
             ELSE format_desc_name(prefix, cf_stack_name.v)

\* line 76: "%s as of %s" % (desc_name, today.strftime('%m/%d/%Y'))
ami_desc(instance, name, day) == desc_name(instance, name) \o " as of " \o ToString(day)

\* faulty variant: no instance counts as an OpsWorks instance
Excluded_Nobody(instance) == FALSE

\* line 254: opsworks_stack is None is false
Excluded(instance) == get_tag(instance, "opsworks:stack").some

\* ImageId the provider gives the next created image
FreshId == MaxHist + 2 + Cardinality({k \in 1..Len(calls) : calls[k].op = "create_image"})

\* the image ec.create_image registers (dated today, private)
NewAmi(name, day) ==
    [ImageId |-> FreshId, Name |-> AmiName(name, day), CreationDate |-> day,
     Public |-> FALSE]

\* SnapshotId of the j-th snapshot of an image
SnapId(ami, j) == 10 * ami + j

\* the snapshot EC2 makes of the root volume when it creates the image
NewSnapshot(iid, ami) ==
    [SnapshotId |-> SnapId(ami, 1), Description |-> CreateImageDesc(iid, ami, 1),
     State |-> "completed"]

\* lines 243-245: the three listings, in the order they are requested
Listings3 == <<"describe_images", "describe_snapshots", "describe_instances">>

LoggedListing(k, r, ok) == [op |-> Listings3[k], inst |-> 0, run |-> r, ok |-> ok]

\* the request of line 79 as the record of calls keeps it
LoggedCreate(i, name, ami, day, ok) ==
    [op |-> "create_image", ImageId |-> ami.ImageId, InstanceId |-> i.InstanceId,
     Name |-> ami.Name, Description |-> ami_desc(i, name.v, day),
     NoReboot |-> (i.State = "running"), day |-> day, inst |-> inst, run |-> runs,
     ok |-> ok]

\* lines 243-249: the listings are read, today is taken; the scheduler calls on
\* the day of the previous invocation or on the next one
ReadListings(day) ==
    /\ today' = day
    /\ runs' = runs + 1
    /\ calls' = calls \o [k \in 1..Len(Listings3) |-> LoggedListing(k, runs + 1, TRUE)]
    /\ all_images' = get_images(store)
    /\ all_snapshots' = get_snapshots(snapstore)
    /\ inst' = 1
    /\ hpc' = "loop"
    /\ UNCHANGED <<images, backup_num, backup_days_ago, pc, n, removed, kept, run,
                   store, snapstore, instances>>

HandlerStart ==
    /\ hpc \in {"idle", "aborted", "failed"}
    /\ runs < MaxRuns
    /\ \E later \in {0, 1} : ReadListings(today + later)

\* lines 254, 275: an OpsWorks instance is ignored
Ignore ==
    /\ hpc = "loop"
    /\ inst <= Len(instances)
    /\ Excluded(instances[inst])
    /\ inst' = inst + 1
    /\ UNCHANGED <<today, images, backup_num, backup_days_ago, pc, n, removed, kept,
                   run, store, snapstore, calls, instances, all_images, all_snapshots, hpc,
                   runs>>

\* lines 258-268, 272: a fresh backup exists, none is created; BackupSet built
SkipFresh ==
    /\ hpc = "loop"
    /\ inst <= Len(instances)
    /\ LET i == instances[inst]
           name == get_tag(i, "Name")
           imgs == ImagesOf(name, all_images)
       IN  /\ ~Excluded(i)
           /\ FreshExists(imgs, today)
           /\ all_images' = SortedInPlace(name, all_images)
           /\ NewBackupSet(HandedToEngine(imgs, <<>>))
    /\ hpc' = "prune"
    /\ UNCHANGED <<today, run, store, snapstore, calls, instances, all_snapshots, inst,
                   runs>>

\* lines 258-272: no fresh backup: backup_instance calls ec.create_image,
\* then BackupSet is built
Backup ==
    /\ hpc = "loop"
    /\ inst <= Len(instances)
    /\ LET i == instances[inst]
           name == get_tag(i, "Name")
           imgs == ImagesOf(name, all_images)
           ami == NewAmi(name, today)
       IN  /\ ~Excluded(i)
           /\ ~FreshExists(imgs, today)
           /\ name.some
           /\ all_images' = SortedInPlace(name, all_images)
           /\ calls' = Append(calls, LoggedCreate(i, name, ami, today, TRUE))
           /\ store' = Append(store, ami)
           /\ snapstore' = Append(snapstore, NewSnapshot(i.InstanceId, ami.ImageId))
           /\ NewBackupSet(HandedToEngine(imgs, <<[id |-> ami.ImageId, created_at |-> today]>>))
    /\ hpc' = "prune"
    /\ UNCHANGED <<today, run, instances, all_snapshots, inst, runs>>

\* line 60: name is None, name.startswith raises AttributeError; nothing
\* catches it and the invocation ends
BackupRaises ==
    /\ hpc = "loop"
    /\ inst <= Len(instances)
    /\ LET i == instances[inst]
           name == get_tag(i, "Name")
       IN  /\ ~Excluded(i)
           /\ ~FreshExists(ImagesOf(name, all_images), today)
           /\ ~name.some
    /\ hpc' = "aborted"
    /\ UNCHANGED <<today, images, backup_num, backup_days_ago, pc, n, removed, kept,
                   run, store, snapstore, calls, instances, all_images, all_snapshots, inst,
                   runs>>

\* line 273 returned: on to the next instance
NextInstance ==
    /\ hpc = "prune"
    /\ pc = "done"
    /\ inst' = inst + 1
    /\ hpc' = "loop"
    /\ UNCHANGED <<today, images, backup_num, backup_days_ago, pc, n, removed, kept,
                   run, store, snapstore, calls, instances, all_images, all_snapshots, runs>>

\* line 250: the for loop is over, lambda_handler returns
HandlerReturn ==
    /\ hpc = "loop"
    /\ inst > Len(instances)
    /\ hpc' = "idle"
    /\ UNCHANGED <<today, images, backup_num, backup_days_ago, pc, n, removed, kept,
                   run, store, snapstore, calls, instances, all_images, all_snapshots, inst,
                   runs>>

\* ------------------------------------------------ what the provider holds
\* instances as describe_instances lists them
Instance(id, tags, state) == [InstanceId |-> id, Tags |-> tags, State |-> state]

Tag(k, v) == [Key |-> k, Value |-> v]

InstanceKinds ==
    { [Tags |-> <<Tag("Name", "web")>>, State |-> "running"],
      [Tags |-> <<Tag("opsworks:stack", "s1"), Tag("Name", "web")>>, State |-> "running"],
      [Tags |-> <<Tag("Name", "vpc-db"), Tag("aws:cloudformation:stack-name", "billing")>>,
       State |-> "stopped"],
      [Tags |-> <<Tag("Name", "ec2-infosrv")>>, State |-> "running"],
      [Tags |-> <<>>, State |-> "running"] }

InstanceLists ==
    { <<a>> : a \in InstanceKinds } \cup { <<a, b>> : a, b \in InstanceKinds }

MkInstances(l) == [k \in 1..Len(l) |-> Instance(k, l[k].Tags, l[k].State)]

RECURSIVE HandlerHistories(_, _)
HandlerHistories(k, top) ==
    IF k = 0 THEN {<<>>}
    ELSE UNION { { <<a>> \o s : s \in HandlerHistories(k - 1, a) } :
                 a \in {x \in HandlerAges : x <= top} }

\* the images of "web", newest first, created ages[k] days before day t
MkStore(t, ages) ==
    [k \in 1..Len(ages) |->
        [ImageId |-> k, Name |-> AmiName(Some("web"), t - ages[Len(ages) + 1 - k]),
         CreationDate |-> t - ages[Len(ages) + 1 - k], Public |-> FALSE]]

\* images get_images passes over: a public one and one whose name has no date
OtherImages(t) ==
    << [ImageId |-> MaxHist + 1, Name |-> AmiName(Some("web"), t), CreationDate |-> t,
        Public |-> TRUE],
       [ImageId |-> 0, Name |-> [base |-> "web", tail |-> "golden"], CreationDate |-> t,
        Public |-> FALSE] >>

\* how many snapshots the image with this ImageId has: none, one or two
SnapCount(ami) == (ami + 2) % 3

\* the snapshots of the first k images of "web", image by image
RECURSIVE MkSnapshots(_)
MkSnapshots(k) ==
    IF k = 0 THEN <<>>
    ELSE MkSnapshots(k - 1) \o
         [j \in 1..SnapCount(k) |->
             [SnapshotId |-> SnapId(k, j), Description |-> CreateImageDesc(1, k, j),
              State |-> "completed"]]

\* snapshots get_snapshots passes over: one made by hand and one not completed
OtherSnapshots ==
    << [SnapshotId |-> 1, Description |-> <<"weekly copy of ", 1>>, State |-> "completed"],
       [SnapshotId |-> 2, Description |-> CreateImageDesc(1, MaxHist + 1, 1),
        State |-> "pending"] >>

HandlerInit ==
    /\ today = FirstDay
    /\ \E k \in 0..MaxHist : \E ages \in HandlerHistories(k, FirstDay) :
          /\ store = MkStore(FirstDay, ages) \o OtherImages(FirstDay)
          /\ snapstore = OtherSnapshots \o MkSnapshots(k)
    /\ \E l \in InstanceLists : instances = MkInstances(l)
    /\ calls = <<>>
    /\ all_images = <<>>
    /\ all_snapshots = <<>>
    /\ inst = 0
    /\ hpc = "idle"
    /\ runs = 0
    /\ images = <<>>
    /\ backup_num = 0
    /\ backup_days_ago = "unset"
    /\ pc = "done"
    /\ n = 0
    /\ removed = <<>>
    /\ kept = <<>>
    /\ run = 1

HandlerNext ==
    \/ HandlerStart
    \/ Ignore
    \/ SkipFresh
    \/ Backup
    \/ BackupRaises
    \/ Engine
    \/ NextInstance
    \/ HandlerReturn

HandlerSpec == HandlerInit /\ [][HandlerNext]_vars

\* ------------------------------------- one invocation a day, from nothing
\* the scheduler calls lambda_handler once every day, the first time on day 0
DailyStart ==
    /\ hpc = "idle"
    /\ runs < MaxDays
    /\ ReadListings(IF runs = 0 THEN today ELSE today + 1)

\* one instance named web and no image of it yet
DailyInit ==
    /\ today = 0
    /\ store = <<>>
    /\ snapstore = <<>>
    /\ instances = MkInstances(<<[Tags |-> <<Tag("Name", "web")>>, State |-> "running"]>>)
    /\ calls = <<>>
    /\ all_images = <<>>
    /\ all_snapshots = <<>>
    /\ inst = 0
    /\ hpc = "idle"
    /\ runs = 0
    /\ images = <<>>
    /\ backup_num = 0
    /\ backup_days_ago = "unset"
    /\ pc = "done"
    /\ n = 0
    /\ removed = <<>>
    /\ kept = <<>>
    /\ run = 1

DailyNext ==
    \/ DailyStart
    \/ Backup
    \/ Engine
    \/ NextInstance
    \/ HandlerReturn

DailySpec == DailyInit /\ [][DailyNext]_vars

\* ------------------------------------------- a request to EC2 that raises
\* faulty variant: the exception is swallowed where it was raised
Raised_Swallowed(where) == where

\* nothing in lambda_handler catches an exception of the ec2 client: the
\* invocation ends, wherever it was
Raised(where) == "failed"

\* lines 243-245: one of the three listings raises; what was listed before
\* it is lost with the invocation
ListingFails ==
    /\ hpc \in {"idle", "aborted", "failed"}
    /\ runs < MaxRuns
    /\ \E later \in {0, 1} : today' = today + later
    /\ runs' = runs + 1
    /\ \E f \in 1..Len(Listings3) :
          calls' = calls \o [k \in 1..f |-> LoggedListing(k, runs + 1, k < f)]
    /\ hpc' = Raised("idle")
    /\ UNCHANGED <<images, backup_num, backup_days_ago, pc, n, removed, kept, run,
                   store, snapstore, instances, all_images, all_snapshots, inst>>

\* line 79: ec.create_image raises; no image is registered
CreateFails ==
    /\ hpc = "loop"
    /\ inst <= Len(instances)
    /\ LET i == instances[inst]
           name == get_tag(i, "Name")
           imgs == ImagesOf(name, all_images)
       IN  /\ ~Excluded(i)
           /\ ~FreshExists(imgs, today)
           /\ name.some
           /\ all_images' = SortedInPlace(name, all_images)
           /\ calls' = Append(calls, LoggedCreate(i, name, NewAmi(name, today), today, FALSE))
    /\ hpc' = Raised("loop")
    /\ UNCHANGED <<today, images, backup_num, backup_days_ago, pc, n, removed, kept,
                   run, store, snapstore, instances, all_snapshots, inst, runs>>

\* lines 85-88 under _remove_and_inc: the f-th request of remove_backup
\* raises; the requests before it were served, the cursor does not advance
RemoveFails ==
    /\ hpc = "prune"
    /\ \/ pc = "ceiling" /\ CeilingCond(backup_days_ago, Len(images), backup_num)
       \/ pc = "thin" /\ backup_days_ago > lower_bound(n)
    /\ LET rec == RemoveRecord(IF pc = "ceiling" THEN "ceiling" ELSE "thin")
           reqs == RemoveRequests(rec.id, rec.snapshots)
       IN  /\ removed' = Append(removed, rec)
           /\ \E f \in 1..Len(reqs) :
                 /\ calls' = calls \o [k \in 1..f |-> Logged(reqs[k], k < f)]
                 /\ store' = ImagesAfter(store, reqs, f - 1)
                 /\ snapstore' = SnapshotsAfter(snapstore, reqs, f - 1)
    /\ pc' = "raised"
    /\ hpc' = Raised("prune")
    /\ UNCHANGED <<today, images, backup_num, backup_days_ago, n, kept, run, instances,
                   all_images, all_snapshots, inst, runs>>

FailNext ==
    \/ HandlerNext
    \/ ListingFails
    \/ CreateFails
    \/ RemoveFails

\* two instances, the second one named web
FailInstanceLists == { <<a, b>> : a \in InstanceKinds,
                                  b \in {x \in InstanceKinds : x.Tags = <<Tag("Name", "web")>>} }

\* histories of web that both loops prune
FailHistories ==
    { <<366, 366, 366, 366, 33, 33>>,
      <<366, 33, 33, 3, 3, 3>>,
      <<33, 33, 33, 3, 3, 0>> }

\* as HandlerInit, on these histories
FailInit ==
    /\ today = FirstDay
    /\ \E ages \in FailHistories :
          /\ store = MkStore(FirstDay, ages) \o OtherImages(FirstDay)
          /\ snapstore = OtherSnapshots \o MkSnapshots(Len(ages))
    /\ \E l \in FailInstanceLists : instances = MkInstances(l)
    /\ calls = <<>>
    /\ all_images = <<>>
    /\ all_snapshots = <<>>
    /\ inst = 0
    /\ hpc = "idle"
    /\ runs = 0
    /\ images = <<>>
    /\ backup_num = 0
    /\ backup_days_ago = "unset"
    /\ pc = "done"
    /\ n = 0
    /\ removed = <<>>
    /\ kept = <<>>
    /\ run = 1

FailSpec == FailInit /\ [][FailNext]_vars

\* ------------------------------------------------- notions the claims use
\* age in days of the i-th backup of the history (1-based)
AgeOf(i) == today - images[i].created_at

Ages == [i \in 1..Len(images) |-> AgeOf(i)]

\* positions (1-based) handed to the delete callback so far
RemovedPos == {removed[i].num + 1 : i \in 1..Len(removed)}

KeptPos == {kept[i].num + 1 : i \in 1..Len(kept)}

SurvivingPos == (1..Len(images)) \ RemovedPos

\* age a lies in the bucket (2^(k-1), 2^k]
InBucket(a, k) == a > 2 ^ (k - 1) /\ a <= 2 ^ k

BucketSurvivors(k) == {i \in SurvivingPos : InBucket(AgeOf(i), k)}

\* at most one survivor in every bucket, and it is the oldest member
BucketUnique ==
    \A k \in 2..MAX_ORDER :
        /\ Cardinality(BucketSurvivors(k)) <= 1
        /\ \A i \in BucketSurvivors(k) :
              \A j \in 1..Len(images) :
                  InBucket(AgeOf(j), k) => AgeOf(j) <= AgeOf(i)

\* positions removed by the "really old" loop
CeilingRemovedPos ==
    {removed[i].num + 1 : i \in {j \in 1..Len(removed) : removed[j].rule = "ceiling"}}

\* ------------------------------------------------------------------ claims
\* C1 as stated: after prune returns on ANY sorted input, every bucket
\* (2^(n-1), 2^n], n in 2..MAX_ORDER, has at most one survivor, the oldest
\* member of the bucket.
C1_AnyInput == pc = "done" => BucketUnique

\* C1 amended: after prune returns on a sorted input of at least MAX_ORDER
\* backups, every bucket (2^(n-1), 2^n], n in 2..MAX_ORDER, holds at most one
\* backup that was not passed to the delete callback, and that one is the
\* oldest backup of the input whose age lies in the bucket.
C1_BucketUnique == (pc = "done" /\ Len(images) >= MAX_ORDER) => BucketUnique

C1_Witness ==
    /\ pc = "done"
    /\ Len(images) >= MAX_ORDER
    /\ \E k \in 2..MAX_ORDER :
          /\ Cardinality({j \in 1..Len(images) : InBucket(AgeOf(j), k)}) >= 3
          /\ Cardinality(BucketSurvivors(k)) = 1

\* C2: the age > DAYS_TO_KEEP_BACKUPS rule never deletes one of the MAX_ORDER
\* most recent backups, so it never leaves fewer than MAX_ORDER of them.
C2_CeilingFloor ==
    /\ \A p \in CeilingRemovedPos : p <= Len(images) - MAX_ORDER
    /\ (CeilingRemovedPos # {} =>
            Len(images) - Cardinality(CeilingRemovedPos) >= MAX_ORDER)

\* C3: no backup whose age is <= 2 days (age 0 and dates after today included)
\* is ever passed to the delete callback.
C3_RecentSurvive == \A p \in RemovedPos : AgeOf(p) > 2

C3_Witness ==
    /\ pc = "done"
    /\ removed # <<>>
    /\ \E i, j, k \in SurvivingPos :
          /\ i < j
          /\ AgeOf(i) = 2 /\ AgeOf(j) = 2
          /\ AgeOf(k) < 0

\* C4: on a group of fewer than MAX_ORDER backups no step of prune calls the
\* delete callback, moves the cursor or changes the history.
C4_SmallGroupUntouched ==
    [][Len(images) < MAX_ORDER =>
          /\ removed' = removed
          /\ kept' = kept
          /\ backup_num' = backup_num
          /\ images' = images]_vars

C4_Witness ==
    /\ pc = "done"
    /\ Len(images) = MAX_ORDER - 1
    /\ AgeOf(1) > DAYS_TO_KEEP_BACKUPS
    /\ AgeOf(2) = AgeOf(3) /\ InBucket(AgeOf(2), MAX_ORDER)

\* C5: a second prune, same today, on the survivors of a first prune calls the
\* delete callback for nothing.
C5_Idempotent == run = 2 => removed = <<>>

\* the second run went through the engine on a history the first run thinned
C5_Witness ==
    /\ run = 2
    /\ pc = "done"
    /\ Len(images) >= MAX_ORDER
    /\ kept # <<>>
    /\ {images[i].id : i \in 1..Len(images)} # 1..Len(images)

\* C6 as stated: the ages of the backups passed to the delete callback
\* strictly decrease from each call to the next.
C6_AgesStrictlyDecrease ==
    \A i \in 1..(Len(removed) - 1) :
        AgeOf(removed[i].num + 1) > AgeOf(removed[i + 1].num + 1)

\* C6 amended: the ages of the backups passed to the delete callback never
\* increase from each call to the next (equal dates give equal ages).
C6_AgesNeverIncrease ==
    \A i \in 1..(Len(removed) - 1) :
        LET p == removed[i].num + 1
            q == removed[i + 1].num + 1
        IN  /\ AgeOf(p) >= AgeOf(q)
            /\ images[p].created_at # images[q].created_at => AgeOf(p) > AgeOf(q)

C6_Witness ==
    /\ pc = "done"
    /\ \E i, j \in 1..Len(removed) :
          /\ j = i + 1
          /\ AgeOf(removed[i].num + 1) = AgeOf(removed[j].num + 1)
    /\ \E i, j \in 1..Len(removed) :
          AgeOf(removed[i].num + 1) > AgeOf(removed[j].num + 1)

\* C7: the delete callback is called for strictly increasing positions (so
\* never twice for one), and every position the cursor has passed was either
\* kept or deleted, never both.
C7_OncePerPosition ==
    /\ \A i \in 1..(Len(removed) - 1) : removed[i].num < removed[i + 1].num
    /\ \A i \in 1..(Len(kept) - 1) : kept[i].num < kept[i + 1].num
    /\ KeptPos \cap RemovedPos = {}
    /\ KeptPos \cup RemovedPos = 1..backup_num
    /\ \A i \in 1..Len(removed) : removed[i].id = images[removed[i].num + 1].id

C7_Witness ==
    /\ pc = "done"
    /\ Len(removed) >= 2
    /\ Len(kept) >= 2
    /\ backup_num = Len(images)

\* C8: on the ages [400, 200, 80, 40, 20, 10, 5, 4, 3, 2, 1, 0] prune deletes
\* exactly the backups of age 400 and 3, in that order, and keeps the rest.
C8_Scenario ==
    (pc = "done" /\ Ages = ScenarioAges) =>
        /\ [i \in 1..Len(removed) |-> AgeOf(removed[i].num + 1)] = <<400, 3>>
        /\ {AgeOf(i) : i \in SurvivingPos} = {200, 80, 40, 20, 10, 5, 4, 2, 1, 0}
        /\ Cardinality(SurvivingPos) = 10

C8_Witness == pc = "done" /\ run = 1 /\ Ages = ScenarioAges

\* create_image calls made for the instance now processed, in this invocation
CreatedNow ==
    {k \in 1..Len(calls) :
        calls[k].op = "create_image" /\ calls[k].run = runs /\ calls[k].inst = inst}

\* ImageIds created in this invocation
CreatedThisRun ==
    {calls[k].ImageId :
        k \in {j \in 1..Len(calls) : calls[j].op = "create_image" /\ calls[j].run = runs}}

CreateCalls == {k \in 1..Len(calls) : calls[k].op = "create_image"}

\* C9 as stated: whenever creation was requested for the resource, the created
\* backup (created_at = today) is an element of the sequence being pruned.
C9_CreatedIsPruned ==
    (hpc = "prune" /\ CreatedNow # {}) =>
        \A k \in CreatedNow :
            \E j \in 1..Len(images) :
                images[j].id = calls[k].ImageId /\ images[j].created_at = today

\* C9 amended: the sequence handed to the engine is the list of the resource's
\* name as read at the start of the invocation, sorted oldest first; no backup
\* created in this invocation is an element of it or counts in the size test.
C9_ListedHistoryPruned ==
    hpc = "prune" =>
        /\ images = ImagesOf(get_tag(instances[inst], "Name"), all_images)
        /\ \A j \in 1..Len(images) : images[j].id \notin CreatedThisRun
        /\ \A j \in 1..(Len(images) - 1) : images[j].created_at <= images[j + 1].created_at

\* five listed backups and one just created: six exist, prune takes the early exit
C9_Witness ==
    /\ hpc = "prune"
    /\ pc = "done"
    /\ CreatedNow # {}
    /\ Len(images) = MAX_ORDER - 1
    /\ removed = <<>>
    /\ images[1].created_at = images[2].created_at
    /\ today - images[1].created_at = 33

\* C10: creation is requested exactly when the freshest listed backup is not
\* dated today, and no two create requests are made for one resource name on
\* one day, over all instances of a run and all runs of the day.
C10_OnePerNamePerDay ==
    /\ hpc = "prune" => (CreatedNow # {} <=> ~FreshExists(images, today))
    /\ \A j, k \in CreateCalls :
          (calls[j].Name = calls[k].Name /\ calls[j].day = calls[k].day) => j = k

\* positions whose age lies above the top bucket and within the ceiling
MiddlePos ==
    {i \in 1..Len(images) :
        AgeOf(i) > 2 ^ MAX_ORDER /\ AgeOf(i) <= DAYS_TO_KEEP_BACKUPS}

\* C16: no backup of age in (2^MAX_ORDER, DAYS_TO_KEEP_BACKUPS] is passed to
\* the delete callback, however many there are; a run that goes past the early
\* exit keeps each of them.
C16_MiddleSurvive ==
    /\ MiddlePos \cap RemovedPos = {}
    /\ (pc = "done" /\ Len(images) >= MAX_ORDER) => MiddlePos \subseteq KeptPos

C16_Witness ==
    /\ pc = "done"
    /\ Cardinality(MiddlePos) >= 3
    /\ MiddlePos \subseteq KeptPos
    /\ Cardinality(RemovedPos) >= 2

\* C17: wherever the element at the cursor is read, kept, deleted or its age
\* compared, the cursor is inside the list and backup_days_ago is the age of
\* the element at the cursor; once the cursor is past the end nothing but the
\* return follows.
C17_CursorInRange ==
    /\ pc \in {"ceiling", "skip", "bucket", "thin"} =>
          /\ backup_num < Len(images)
          /\ backup_days_ago = today - images[backup_num + 1].created_at
    /\ \A i \in 1..Len(removed) : removed[i].num < Len(images)
    /\ \A i \in 1..Len(kept) : kept[i].num < Len(images)
    /\ backup_num <= Len(images)
    /\ backup_num >= Len(images) => pc \in {"start", "done"}
    /\ pc = "start" => backup_num = 0

\* the "really old" loop stopped with MAX_ORDER - 1 backups left, and a later
\* advance ran off the end
C17_Witness ==
    /\ pc = "done"
    /\ backup_num = Len(images)
    /\ Len(images) >= MAX_ORDER
    /\ Cardinality(CeilingRemovedPos) = Len(images) - (MAX_ORDER - 1)
    /\ removed[Len(removed)].rule = "thin"

\* removals made by the bucket loop
ThinRemovals == {i \in 1..Len(removed) : removed[i].rule = "thin"}

\* C19: a non-empty history keeps at least one backup, and every removal of
\* the bucket loop follows a keep of a backup of the same bucket that is at
\* least as old.
C19_NeverEmptied ==
    /\ Len(images) > 0 => SurvivingPos # {}
    /\ \A i \in ThinRemovals :
          \E j \in 1..Len(kept) :
              /\ kept[j].num < removed[i].num
              /\ AgeOf(kept[j].num + 1) >= AgeOf(removed[i].num + 1)
              /\ \E k \in 2..MAX_ORDER :
                    /\ InBucket(AgeOf(kept[j].num + 1), k)
                    /\ InBucket(AgeOf(removed[i].num + 1), k)

C19_Witness ==
    /\ pc = "done"
    /\ Cardinality(SurvivingPos) = 1
    /\ Cardinality(ThinRemovals) >= 2
    /\ CeilingRemovedPos # {}

\* the ec.deregister_image calls on record
DeregisterCalls == {k \in 1..Len(calls) : calls[k].op = "deregister_image"}

\* C20: within one invocation no ImageId is passed to ec.deregister_image
\* more than once, over all the instances processed.
C20_NoDoubleDelete ==
    \A i, j \in DeregisterCalls :
        (i < j /\ calls[i].run = calls[j].run) => calls[i].ImageId # calls[j].ImageId

\* the requests one step adds to the record of calls
NewCalls == SubSeq(calls', Len(calls) + 1, Len(calls'))

\* the snapshots one step takes out of the provider's store
GoneSnapshots == {k \in 1..Len(snapstore) :
                    \A j \in 1..Len(snapstore') : snapstore'[j] # snapstore[k]}

\* the images one step takes out of the provider's store
GoneImages == {k \in 1..Len(store) :
                 \A j \in 1..Len(store') : store'[j] # store[k]}

\* a step in which _remove_and_inc calls remove_backup
RemovalStep == Len(removed') = Len(removed) + 1

\* C18: every removal passes to remove_backup the snapshot ids all_snapshots
\* holds for the image (none when it has no entry); remove_backup requests
\* deregister_image for the image and then delete_snapshot for each of them,
\* in order; no snapshot made for a deregistered image is left in the store
\* and only snapshots of the deregistered image leave it.
C18_Step ==
    /\ RemovalStep =>
          LET r == removed'[Len(removed')]
          IN  /\ r.snapshots = IF r.id \in DOMAIN all_snapshots
                               THEN all_snapshots[r.id] ELSE <<>>
              /\ Len(NewCalls) = 1 + Len(r.snapshots)
              /\ NewCalls[1].op = "deregister_image"
              /\ NewCalls[1].ImageId = r.id
              /\ \A j \in 1..Len(r.snapshots) :
                    /\ NewCalls[j + 1].op = "delete_snapshot"
                    /\ NewCalls[j + 1].SnapshotId = r.snapshots[j]
              /\ \A k \in 1..Len(store') : store'[k].ImageId # r.id
              /\ \A k \in 1..Len(snapstore') :
                    DescMatches(snapstore'[k].Description) =>
                       DescAmi(snapstore'[k].Description) # r.id
    /\ \A k \in GoneSnapshots :
          /\ RemovalStep
          /\ DescMatches(snapstore[k].Description)
          /\ DescAmi(snapstore[k].Description) = removed'[Len(removed')].id
    /\ \A k \in GoneImages :
          RemovalStep /\ store[k].ImageId = removed'[Len(removed')].id

C18_SnapshotsFollowImage == [][C18_Step]_vars

\* one run has removed an image with two snapshots and one with none
C18_Witness ==
    /\ hpc = "prune"
    /\ \E i, j \in 1..Len(removed) :
          /\ Len(removed[i].snapshots) = 2
          /\ removed[j].snapshots = <<>>
          /\ removed[j].id \notin DOMAIN all_snapshots
    /\ \E k \in 1..Len(calls) : calls[k].op = "delete_snapshot" /\ calls[k].run = runs
    /\ \E k \in 1..Len(store) :
          /\ store[k].ImageId \in DOMAIN all_snapshots
          /\ \A j \in 1..Len(all_snapshots[store[k].ImageId]) :
                \E x \in 1..Len(snapstore) :
                    snapstore[x].SnapshotId = all_snapshots[store[k].ImageId][j]

\* the instance carries the tag opsworks:stack
HasOpsWorksTag(instance) ==
    \E k \in 1..Len(instance.Tags) : instance.Tags[k].Key = "opsworks:stack"

\* C14: the step that processes an instance carrying the tag opsworks:stack
\* makes no request to create or delete anything and builds no BackupSet; it
\* only moves to the next instance.
C14_Step ==
    (hpc = "loop" /\ inst <= Len(instances) /\ HasOpsWorksTag(instances[inst])) =>
        /\ calls' = calls
        /\ store' = store
        /\ snapstore' = snapstore
        /\ <<images, backup_num, backup_days_ago, pc, n, removed, kept>>' =
           <<images, backup_num, backup_days_ago, pc, n, removed, kept>>
        /\ inst' = inst + 1
        /\ hpc' = "loop"

C14_ExcludedSkipped == [][C14_Step]_vars

\* an OpsWorks instance named web has just been passed over although web has
\* a history to prune and no backup of today
C14_Witness ==
    /\ hpc = "loop"
    /\ inst = 2
    /\ HasOpsWorksTag(instances[1])
    /\ get_tag(instances[1], "Name") = Some("web")
    /\ "web" \in DOMAIN all_images
    /\ Len(all_images["web"]) >= MAX_ORDER
    /\ \A k \in 1..Len(all_images["web"]) : all_images["web"][k].created_at # today
    /\ \A k \in 1..Len(calls) :
          calls[k].run = runs => calls[k].op \in {Listings3[j] : j \in 1..3}

\* the names DESC_NAMES has a description for, with or without a prefix
MappedNames ==
    {pre \o key : pre \in {"", "ec2-", "vpc-"}, key \in DOMAIN DESC_NAMES}

\* the description of a create_image request falls back to the stack-name
\* tag of its instance, and to "Unknown" when there is none
FallsBack(c) ==
    LET cf == get_tag(instances[c.inst], "aws:cloudformation:stack-name")
        last == IF cf.some THEN cf.v ELSE "Unknown"
    IN  c.Description \in
           {pre \o last \o " as of " \o ToString(c.day) : pre \in {"", "EC2 ", "VPC "}}

\* every create request for a name without a description mapping falls back
DescriptionFallsBack ==
    \A k \in CreateCalls :
        calls[k].Name.base \notin MappedNames => FallsBack(calls[k])

\* C11: missing metadata is never an error: no invocation ends in an
\* exception at an instance that is not an OpsWorks instance, and a create
\* request for a name without a description mapping carries the stack-name
\* tag, or "Unknown", as its description.
C11_MissingMetadataNoError ==
    /\ hpc # "aborted"
    /\ DescriptionFallsBack

\* the requests that raised
FailedCalls == {k \in 1..Len(calls) : ~calls[k].ok}

\* what the requests that returned have done is still so
EffectsRemain ==
    \A k \in 1..Len(calls) :
        calls[k].ok =>
           /\ calls[k].op = "deregister_image" =>
                 \A j \in 1..Len(store) : store[j].ImageId # calls[k].ImageId
           /\ calls[k].op = "delete_snapshot" =>
                 \A j \in 1..Len(snapstore) : snapstore[j].SnapshotId # calls[k].SnapshotId
           /\ calls[k].op = "create_image" =>
                 \/ \E j \in 1..Len(store) : store[j].ImageId = calls[k].ImageId
                 \/ \E j \in (k + 1)..Len(calls) :
                       /\ calls[j].op = "deregister_image"
                       /\ calls[j].ok
                       /\ calls[j].ImageId = calls[k].ImageId

\* C15: a request that raises is the last request of its invocation, which
\* ends there whatever instances are left; no request is made again, and what
\* the earlier requests did remains.
C15_AbortsAtFailure ==
    /\ \A k \in FailedCalls :
          \A j \in 1..Len(calls) : j > k => calls[j].run # calls[k].run
    /\ (\E k \in FailedCalls : calls[k].run = runs) => hpc = "failed"
    /\ EffectsRemain

\* delete_snapshot raised after an image was created and others deregistered in
\* the same invocation, with an instance still to process
C15_Witness ==
    /\ hpc = "failed"
    /\ inst < Len(instances)
    /\ Len(calls) > 0
    /\ calls[Len(calls)].op = "delete_snapshot"
    /\ ~calls[Len(calls)].ok
    /\ \E k \in 1..Len(calls) :
          calls[k].run = runs /\ calls[k].op = "create_image" /\ calls[k].ok
    /\ \E k \in 1..Len(calls) :
          calls[k].run = runs /\ calls[k].op = "delete_snapshot" /\ calls[k].ok

\* the images of web the provider holds
WebImages == {k \in 1..Len(store) : ~store[k].Public /\ store[k].Name.base = "web"}

\* how many of them are lo..hi days old
Aged(lo, hi) ==
    Cardinality({k \in WebImages :
                    today - store[k].CreationDate >= lo /\ today - store[k].CreationDate <= hi})

\* lines 104-106: MAX_ORDER + 2 + (365 - 2^MAX_ORDER) / 2^MAX_ORDER, rounded up
RetainedCap ==
    MAX_ORDER + 2 +
    (DAYS_TO_KEEP_BACKUPS - 2 ^ MAX_ORDER + 2 ^ MAX_ORDER - 1) \div (2 ^ MAX_ORDER)

\* C12: with one invocation a day from an empty history, no more than 13
\* backups of the instance are left after any invocation.
C12_AtMostThirteen ==
    hpc = "idle" => Cardinality(WebImages) <= RetainedCap

====
